---------------------------- MODULE Spec2Model ----------------------------
(***************************************************************************)
(* Model of evaluation/disf_evaluation.py: the final (non-incremental)     *)
(* disfluency scorer, the incremental scorer that replays an increco       *)
(* stream and then calls the final scorer, and the result writer.          *)
(*                                                                         *)
(* Python lists are 0-indexed, TLA+ sequences 1-indexed: val[k] of the     *)
(* source is val[k+1] here.  Python floats are modelled as exact           *)
(* fractions [n, d] in lowest terms; None and NaN are the records below.   *)
(* The helpers imported from eval_utils are not part of the modelled file; *)
(* they are modelled from the specification's description of them.         *)
(***************************************************************************)
EXTENDS Integers, Sequences, FiniteSets, TLC

(***************************************************************************)
(* Bounds of the model.                                                    *)
(***************************************************************************)
\* gold records of one run, over all its speakers
MaxRecords == 2
\* snapshots of one run's increco streams, over all its speakers
MaxSnapshots == 3
\* latest time stamp of a snapshot
MaxTime == 1

\* every speaker key, in the order sorted() gives them
AllSpeakers == <<"d1:A", "d1:B">>

\* values a result can hold besides a fraction; records, as fractions are
None == [none |-> TRUE]
NaN == [nan |-> TRUE]
SomeFloat == [float |-> TRUE]
Raised(exception) == [raises |-> exception]

(***************************************************************************)
(* Exact fractions standing for Python floats.                             *)
(***************************************************************************)
RECURSIVE GCD(_, _)
GCD(a, b) == IF b = 0 THEN a ELSE GCD(b, a % b)

Abs(a) == IF a < 0 THEN -a ELSE a

Rat(n, d) ==
    LET g == GCD(Abs(n), d)
    IN  [n |-> n \div g, d |-> d \div g]

Zero == [n |-> 0, d |-> 1]

RatSub(a, b) == Rat(a.n * b.d - b.n * a.d, a.d * b.d)

RatScale(k, a) == Rat(k * a.n, a.d)

\* Python's true division (from __future__ import division)
PyDiv(enum, denom) ==
    IF denom = 0 THEN Raised("ZeroDivisionError") ELSE Rat(enum, denom)

RECURSIVE SumSeq(_)
SumSeq(q) == IF q = <<>> THEN 0 ELSE Head(q) + SumSeq(Tail(q))

SeqToSet(q) == {q[i] : i \in 1..Len(q)}

(***************************************************************************)
(* Module constants of disf_evaluation.py.                                 *)
(***************************************************************************)
acc_tags == <<"<rms", "<rm", "<i", "<e", "<rps", "<rp", "<rpn",
              "<rpnrep", "<rpnsub", "<rpndel", "t>">>

combined_acc_tags == <<"<rm.<i.<rp">>

ttd_tags == <<"<rms", "<rps", "<e", "t>">>

relaxed_tags == <<"<rps", "<e", "t>">>

\* A header is the list header.split(",") gives; an entry is
\* <<text, TRUE>> when the text ends in the {0} slot, <<text, FALSE>> when
\* it has no slot.
FINAL_OUTPUT_DISFLUENCY_ACCURACY_HEADER ==
    << <<"p_<rm_", TRUE>>, <<"r_<rm_", TRUE>>, <<"f1_<rm_", TRUE>>,
       <<"p_<rm.<rp.<i_", TRUE>>, <<"r_<rm.<rp.<i_", TRUE>>,
       <<"f1_<rm.<rp.<i_", TRUE>>,
       <<"p_<rps_", TRUE>>, <<"r_<rps_", TRUE>>, <<"f1_<rps_", TRUE>>,
       <<"p_<rps_relaxed_", TRUE>>, <<"r_<rps_relaxed_", TRUE>>,
       <<"f1_<rps_relaxed_", TRUE>>,
       <<"p_<e_", TRUE>>, <<"r_<e_", TRUE>>, <<"f1_<e_", TRUE>>,
       <<"p_<e_relaxed_", TRUE>>, <<"r_<e_relaxed_", TRUE>>,
       <<"f1_<e_relaxed_", TRUE>> >>

FINAL_OUTPUT_DISFLUENCY_RATE_ACCURACY_HEADER ==
    << <<"pearson_r_correl_rps_number", FALSE>>,
       <<"pearson_r_p_value_rps_number", FALSE>>,
       <<"pearson_r_correl_rps_rate_per_word", FALSE>>,
       <<"pearson_r_p_value_rps_rate_per_word", FALSE>>,
       <<"pearson_r_correl_rps_rate_per_utt", FALSE>>,
       <<"pearson_r_p_value_rps_rate_per_utt", FALSE>> >>

INCREMENTAL_OUTPUT_DISFLUENCY_ACCURACY_HEADER ==
    << <<"delayed_acc_<rm_1_", TRUE>>, <<"delayed_acc_<rm_2_", TRUE>>,
       <<"delayed_acc_<rm_3_", TRUE>>, <<"delayed_acc_<rm_4_", TRUE>>,
       <<"delayed_acc_<rm_5_", TRUE>>, <<"delayed_acc_<rm_6_", TRUE>>,
       <<"delayed_acc_<rm_mean_", TRUE>>,
       <<"t_t_detection_<rms_", TRUE>>, <<"t_t_detection_<rps_", TRUE>>,
       <<"t_t_detection_<e_", TRUE>>,
       <<"processing_overhead_", TRUE>>,
       <<"edit_overhead_rel_<rm", FALSE>> >>

\* the fifth entry keeps the backslash and the blank of the source line
FINAL_OUTPUT_TTO_ACCURACY_HEADER ==
    << <<"p_t>_", TRUE>>, <<"r_t>_", TRUE>>, <<"f1_t>_", TRUE>>,
       <<"p_t>_", TRUE>>, <<"\\ r_t>_relaxed_", TRUE>>,
       <<"f1_t>_relaxed_", TRUE>>,
       <<"NIST_SU", FALSE>>, <<"DSER", FALSE>>, <<"SegER", FALSE>> >>

INCREMENTAL_OUTPUT_TTO_ACCURACY_HEADER ==
    << <<"t_t_detection_t>_", TRUE>>, <<"t_t_detection_final_t>_", TRUE>>,
       <<"edit_overhead_rel_tto", FALSE>> >>

SPEAKER_RATE_HEADER ==
    <<"corpus", "conversation_no", "speaker", "total_turns", "total_words",
      "rps_hyp", "rps_gold", "rps_rate_per_utt_hyp", "rps_rate_per_utt_gold",
      "rps_rate_words_hyp", "rps_rate_words_gold">>

MODEL_INFO_HEADER ==
    <<"eval_corpus", "model", "context_win", "ed_num", "rp_num", "rm_num",
      "rpn_num", "training_corpus">>

\* a header entry as the source text has it, the slot unfilled
Raw(entry) == IF entry[2] THEN entry[1] \o "{0}" ELSE entry[1]

RawEntries(header) == [i \in 1..Len(header) |-> Raw(header[i])]

ACCURACY_HEADER ==
    RawEntries(FINAL_OUTPUT_DISFLUENCY_ACCURACY_HEADER)
    \o RawEntries(FINAL_OUTPUT_TTO_ACCURACY_HEADER)
    \o RawEntries(INCREMENTAL_OUTPUT_DISFLUENCY_ACCURACY_HEADER)
    \o RawEntries(INCREMENTAL_OUTPUT_TTO_ACCURACY_HEADER)
    \o <<"edit_overhead_rel">>
    \o RawEntries(FINAL_OUTPUT_DISFLUENCY_RATE_ACCURACY_HEADER)

\* header.split(sep) of a comma-joined header: Python's str.split raises
\* ValueError on the empty separator
PySplit(header, sep) ==
    IF sep = "" THEN Raised("ValueError") ELSE [list |-> header]

\* key.split(":") of a speaker key
SplitColon(key) ==
    CASE key = "d1:A" -> <<"d1", "A">>
      [] key = "d1:B" -> <<"d1", "B">>
      [] OTHER -> <<key>>

\* header_entry.format(mode)
Format(entry, mode) == IF entry[2] THEN entry[1] \o mode ELSE entry[1]

\* header.format(mode).split(","), as the set of keys
HeaderKeys(header, mode) ==
    {Format(header[i], mode) : i \in 1..Len(header)}

\* "p_{0}_{1}".format(tag, eval_mode) and its siblings
Key(prefix, tag, eval_mode) == prefix \o "_" \o tag \o "_" \o eval_mode

\* tag.split(".") for the combined tags of combined_acc_tags
SplitDot(tag) ==
    CASE tag = "<rm.<i.<rp" -> <<"<rm", "<i", "<rp">>
      [] OTHER -> <<tag>>

\* dict.update({key: value for key in keys})
Update(dict, keys, value) ==
    [k \in (DOMAIN dict) \cup keys |-> IF k \in keys THEN value ELSE dict[k]]

\* dict[key] = value
Assign(dict, key, value) ==
    [k \in (DOMAIN dict) \cup {key} |-> IF k = key THEN value ELSE dict[k]]

\* the empty dict
EmptyDict == [k \in {} |-> None]

(***************************************************************************)
(* Annotations of a record and the tag codes each contains.                *)
(***************************************************************************)
Annotations == {"<rm/><cc/>", "<rps/><cc/>", "<rp/><ct/>"}

TagsOf(annotation) ==
    CASE annotation = "<rm/><cc/>" -> {"<rm"}
      [] annotation = "<rps/><cc/>" -> {"<rps"}
      [] annotation = "<rp/><ct/>" -> {"<rp", "t>"}
      [] OTHER -> {}

\* annotation sequences of length at most n
SeqsUpTo(n) == UNION {[1..k -> Annotations] : k \in 0..n}

\* positions of a tag sequence that carry the tag
Positions(tags, tag) == {i \in 1..Len(tags) : tag \in TagsOf(tags[i])}

Count(tags, tag) == Cardinality(Positions(tags, tag))

Min(a, b) == IF a < b THEN a ELSE b

(***************************************************************************)
(* eval_utils, modelled from the specification (sections 4.1-4.3).         *)
(***************************************************************************)
\* precision, recall and F1 of a (TP, FP, FN) counter; 0 on a 0 denominator
p_r_f(TP, FP, FN) ==
    << IF TP + FP = 0 THEN Zero ELSE Rat(TP, TP + FP),
       IF TP + FN = 0 THEN Zero ELSE Rat(TP, TP + FN),
       IF TP = 0 THEN Zero ELSE Rat(2 * TP, 2 * TP + FP + FN) >>

NIST_SU(counts) ==
    IF counts[3] = 0 THEN Zero ELSE Rat(counts[1] + counts[2], counts[3])

DSER(counts) == IF counts[2] = 0 THEN Zero ELSE Rat(counts[1], counts[2])

RelaxedKey(tag) == tag \o "_relaxed"

\* exact matching: a tag counts at a position where the record carries it
ExactCounts(hyptags, goldtags, tag) ==
    LET H == Positions(hyptags, tag)
        G == Positions(goldtags, tag)
    IN  << Cardinality(H \cap G), Cardinality(H \ G), Cardinality(G \ H) >>

\* relaxed matching: a hit when the tag appears within the same window
RelaxedCounts(hyptags, goldtags, tag) ==
    LET h == Count(hyptags, tag)
        g == Count(goldtags, tag)
    IN  << Min(h, g), h - Min(h, g), g - Min(h, g) >>

Add3(a, b) == << a[1] + b[1], a[2] + b[2], a[3] + b[3] >>

\* the counters after one speaker has been aligned and counted
ScoreTags(td, hyptags, goldtags) ==
    [k \in DOMAIN td |->
        IF k \in SeqToSet(acc_tags)
        THEN Add3(td[k], ExactCounts(hyptags, goldtags, k))
        ELSE IF \E t \in SeqToSet(relaxed_tags) : k = RelaxedKey(t)
        THEN LET t == CHOOSE u \in SeqToSet(relaxed_tags) : k = RelaxedKey(u)
             IN  Add3(td[k], RelaxedCounts(hyptags, goldtags, t))
        ELSE IF k = "NIST_SU"
        THEN LET c == ExactCounts(hyptags, goldtags, "t>")
             IN  Add3(td[k], << c[2], c[3], Count(goldtags, "t>") >>)
        ELSE IF k \in {"DSER", "SegER"}
        THEN LET c == ExactCounts(hyptags, goldtags, "t>")
             IN  << td[k][1] + c[2] + c[3], td[k][2] + Count(goldtags, "t>") >>
        ELSE td[k]]

\* what final_output_accuracy_word_level / _interval_level return:
\* repairs_hyp, repairs_gold, number_of_utts_hyp, number_of_utts_gold
ScoreReturn(hyptags, goldtags) ==
    << Count(hyptags, "<rps"), Count(goldtags, "<rps"),
       Count(hyptags, "t>"), Count(goldtags, "t>") >>

\* scipy.stats.pearsonr on two paired vectors: (r, p-value).  Undefined
\* (NaN) below two points and on a constant vector; with exactly two points
\* r is +1 or -1 and the p-value 0; otherwise some float
pearsonr(x, y) ==
    IF Len(x) < 2 \/ Cardinality(SeqToSet(x)) = 1 \/ Cardinality(SeqToSet(y)) = 1
    THEN << NaN, NaN >>
    ELSE IF Len(x) = 2
    THEN LET dx == RatSub(x[1], x[2])
             dy == RatSub(y[1], y[2])
         IN  << Rat(IF dx.n * dy.n > 0 THEN 1 ELSE -1, 1), Zero >>
    ELSE << SomeFloat, SomeFloat >>

\* numpy.average of a list of integer samples: NaN on the empty list
np_average(samples) ==
    IF Len(samples) = 0 THEN NaN ELSE Rat(SumSeq(samples), Len(samples))

(***************************************************************************)
(* State.                                                                  *)
(***************************************************************************)
VARIABLES
    fn,                        \* the entry point called
    word, interval, utt_eval,  \* its keyword arguments (word: the truth
                               \* value of what the local name is bound to)
    outputfilename,            \* TRUE when an aligned-output path is given
    outputfile,                \* blocks written to the aligned-output file
    final_calls,               \* history: calls of final_output_disfluency_eval
    prediction_speakers_dict,  \* speaker key -> hypothesis
    gold_speakers_dict,        \* speaker key -> gold tags
    pc,                        \* position in the code
    err,                       \* <<exception, line>> once raised, else <<>>
    idx,                       \* position of the speaker loop in the sorted keys
    results,
    tag_dict,
    tag_dict_interval,
    speaker_rate_dict,
    pooled,                    \* eval_mode -> (TPS, FPS, FNS) of lines 329-335
    inc_tag_dict,              \* tag_dict of incremental_output_disfluency_eval
    held,                      \* replay: latest known tag per record position
    lastTime,                  \* replay: time of the last snapshot
    nSnap,                     \* replay: snapshots consumed for this speaker
    detected,                  \* replay: gold event -> time it was first flagged correctly
    first_snapshot,            \* history: speaker -> records of its first snapshot
    snap_count,                \* history: speaker -> snapshots in its stream
    flips,                     \* history: changes of an already emitted tag
    results_file,              \* rows written by save_results_to_file
    speaker_rate_file

vars == << fn, word, interval, utt_eval, outputfilename, outputfile,
           final_calls, prediction_speakers_dict,
           gold_speakers_dict, pc, err, idx, results, tag_dict,
           tag_dict_interval, speaker_rate_dict, pooled, inc_tag_dict, held,
           lastTime, nSnap, detected, first_snapshot, snap_count, flips,
           results_file, speaker_rate_file >>

inputs == << fn, word, interval, utt_eval, outputfilename,
            gold_speakers_dict >>

\* the arguments the speaker loop of the final scorer never rebinds
arguments == << fn, interval, utt_eval, outputfilename, gold_speakers_dict >>

replay == << held, lastTime, nSnap, detected, first_snapshot, snap_count,
             flips >>

files == << results_file, speaker_rate_file >>

ThisTagDict(eval_mode) ==
    IF eval_mode = "interval" THEN tag_dict_interval ELSE tag_dict

Increco == "increco"

\* a variant of the speaker order: the keys in descending order
SortedKeysDescending ==
    LET keys == SelectSeq(AllSpeakers,
                          LAMBDA s : s \in DOMAIN prediction_speakers_dict)
    IN  [i \in 1..Len(keys) |-> keys[Len(keys) + 1 - i]]

\* sorted(prediction_speakers_dict.keys())
SortedKeys == SelectSeq(AllSpeakers, LAMBDA s : s \in DOMAIN prediction_speakers_dict)

\* the speaker the loop is at
CurrentSpeaker == SortedKeys[idx]

InLoop == idx <= Len(SortedKeys)

\* gold_speakers_dict.get(s) == None
NotInGold(s) == s \notin DOMAIN gold_speakers_dict

\* onset of the gold record at a position
GoldStart(p) == p - 1

\* records of a speaker-keyed dict, over all its speakers
TotalLen(dict) ==
    SumSeq([i \in 1..Len(AllSpeakers) |->
               IF AllSpeakers[i] \in DOMAIN dict
               THEN Len(dict[AllSpeakers[i]]) ELSE 0])

EntryPoints == {"final", "incremental"}

Unread == << "<rp/><ct/>" >>

Init ==
    /\ fn \in EntryPoints
    /\ word \in BOOLEAN
    /\ interval \in BOOLEAN
    /\ utt_eval \in BOOLEAN
    /\ outputfilename \in BOOLEAN
    /\ outputfile = <<>>
    /\ final_calls = 0
    /\ \E hypKeys \in SUBSET SeqToSet(AllSpeakers),
          goldKeys \in SUBSET SeqToSet(AllSpeakers) :
          /\ gold_speakers_dict \in [goldKeys -> SeqsUpTo(MaxRecords)]
          /\ TotalLen(gold_speakers_dict) <= MaxRecords
          \* an entry no loop ever reads is kept to one fixed record
          /\ \A s \in goldKeys \ hypKeys : gold_speakers_dict[s] = Unread
          /\ IF fn = "final"
             THEN /\ prediction_speakers_dict \in [hypKeys -> SeqsUpTo(MaxRecords)]
                  /\ \A s \in hypKeys \ goldKeys :
                        prediction_speakers_dict[s] = Unread
                  \* word-level evaluation assumes as many words as gold has
                  /\ \A s \in hypKeys \cap goldKeys :
                        Len(prediction_speakers_dict[s]) = Len(gold_speakers_dict[s])
             ELSE prediction_speakers_dict = [s \in hypKeys |-> Increco]
    /\ pc = "call"
    /\ err = <<>>
    /\ idx = 1
    /\ results = EmptyDict
    /\ tag_dict = EmptyDict
    /\ tag_dict_interval = EmptyDict
    /\ speaker_rate_dict = EmptyDict
    /\ pooled = EmptyDict
    /\ inc_tag_dict = EmptyDict
    /\ held = <<>>
    /\ lastTime = 0
    /\ nSnap = 0
    /\ detected = EmptyDict
    /\ first_snapshot = EmptyDict
    /\ snap_count = EmptyDict
    /\ flips = 0
    /\ results_file = <<>>
    /\ speaker_rate_file = <<>>

\* a variant of the loops that keeps both eval_mode values whatever the
\* flags are
EvalModesBoth == << "word", "interval" >>

\* the eval_mode values the loops of lines 311-315 and 503-507 keep
EvalModes ==
    SelectSeq(<<"word", "interval">>,
              LAMBDA m : (m = "word" /\ word) \/ (m = "interval" /\ interval))

Raise(exception, line) ==
    /\ pc' = "error"
    /\ err' = << exception, line >>

(***************************************************************************)
(* final_output_disfluency_eval                                            *)
(***************************************************************************)
\* lines 199-217: the result keys the enabled headers name, at None
FinalHeaderKeys ==
    (IF word
     THEN HeaderKeys(FINAL_OUTPUT_DISFLUENCY_ACCURACY_HEADER, "word")
          \cup (IF utt_eval
                THEN HeaderKeys(FINAL_OUTPUT_TTO_ACCURACY_HEADER, "word")
                ELSE {})
     ELSE {})
    \cup
    (IF interval
     THEN HeaderKeys(FINAL_OUTPUT_DISFLUENCY_ACCURACY_HEADER, "interval")
          \cup (IF utt_eval
                THEN HeaderKeys(FINAL_OUTPUT_TTO_ACCURACY_HEADER, "interval")
                ELSE {})
     ELSE {})

\* lines 220-226
InitialTagDict ==
    [k \in SeqToSet(acc_tags) \cup SeqToSet(combined_acc_tags)
           \cup {RelaxedKey(t) : t \in SeqToSet(relaxed_tags)}
           \cup (IF utt_eval THEN {"NIST_SU", "DSER", "SegER"} ELSE {})
        |-> IF k \in {"DSER", "SegER"} THEN << 0, 0 >> ELSE << 0, 0, 0 >>]

FinalInit ==
    /\ \/ pc = "call" /\ fn = "final"
       \/ pc = "fin_call"
    /\ results' = Update(results, FinalHeaderKeys, None)
    /\ tag_dict' = InitialTagDict
    /\ tag_dict_interval' = InitialTagDict
    /\ speaker_rate_dict' = EmptyDict
    /\ idx' = 1
    \* lines 245-246: open(outputfilename, "w")
    /\ outputfile' = <<>>
    /\ final_calls' = final_calls + 1
    /\ pc' = "fin_loop"
    /\ UNCHANGED << pooled, inputs, prediction_speakers_dict, err,
                    inc_tag_dict, replay, files >>

\* lines 249-251
FinalSkip ==
    /\ pc = "fin_loop"
    /\ InLoop
    /\ NotInGold(CurrentSpeaker)
    /\ idx' = idx + 1
    /\ UNCHANGED << outputfile, final_calls, pooled, inputs,
                    prediction_speakers_dict, pc, err, results, tag_dict,
                    tag_dict_interval, speaker_rate_dict, inc_tag_dict,
                    replay, files >>

\* a variant of the totals that adds what was returned once per enabled
\* granularity
AddTotalsPerGranularity(totals, returned, hypwords, goldwords) ==
    LET n == Len(EvalModes)
    IN  << totals[1] + n * returned[1], totals[2] + n * returned[2],
           totals[3] + n * returned[3], totals[4] + n * returned[4],
           totals[5] + n * Len(hypwords), totals[6] + n * Len(goldwords) >>

\* lines 298-307: the six running totals of a speaker after it is scored
AddTotals(totals, returned, hypwords, goldwords) ==
    << totals[1] + returned[1], totals[2] + returned[2],
       totals[3] + returned[3], totals[4] + returned[4],
       totals[5] + Len(hypwords), totals[6] + Len(goldwords) >>

\* truth value of a Python tuple
Truthy(tuple) == Len(tuple) > 0

\* lines 272-277: the (start, end, word) triples of the aligned words
final_words(hyp, gold) ==
    [i \in 1..Min(Len(hyp), Len(gold)) |->
        << GoldStart(i), GoldStart(i) + 1, "word" >>]

\* a variant of the rebinding that leaves the local name word bound to an
\* empty tuple
WordAfterEmptyDump(hyp, gold) == <<>>

\* lines 273-285: what the local name word is bound to after the dump of
\* a speaker with at least one word, the last triple of final_words
WordAfterDump(hyp, gold) == final_words(hyp, gold)[Len(final_words(hyp, gold))]

\* lines 254, 278-286: the block of a speaker in the aligned-output file
DumpBlock(s, hyp, gold) ==
    [file |-> s,
     lines |-> IF word
               THEN [i \in 1..Len(final_words(hyp, gold)) |->
                        << final_words(hyp, gold)[i], gold[i], hyp[i] >>]
               ELSE <<>>]

\* lines 253-307
FinalScore ==
    /\ pc = "fin_loop"
    /\ InLoop
    /\ ~NotInGold(CurrentSpeaker)
    /\ LET s == CurrentSpeaker
           hyp == prediction_speakers_dict[s]
           gold == gold_speakers_dict[s]
           totals == IF s \in DOMAIN speaker_rate_dict
                     THEN speaker_rate_dict[s]
                     ELSE << 0, 0, 0, 0, 0, 0 >>
       IN  /\ tag_dict' = IF word THEN ScoreTags(tag_dict, hyp, gold)
                          ELSE tag_dict
           /\ tag_dict_interval' =
                 IF interval THEN ScoreTags(tag_dict_interval, hyp, gold)
                 ELSE tag_dict_interval
           /\ IF word \/ interval
              THEN /\ speaker_rate_dict' =
                         Assign(speaker_rate_dict, s,
                                AddTotals(totals, ScoreReturn(hyp, gold), hyp, gold))
                   /\ idx' = idx + 1
                   /\ UNCHANGED << pc, err >>
              ELSE \* repairs_hyp was never bound
                   /\ speaker_rate_dict' = Assign(speaker_rate_dict, s, totals)
                   /\ Raise("UnboundLocalError", 302)
                   /\ UNCHANGED idx
           /\ outputfile' = IF outputfilename
                            THEN Append(outputfile, DumpBlock(s, hyp, gold))
                            ELSE outputfile
           /\ word' = IF word /\ outputfilename /\ Len(final_words(hyp, gold)) > 0
                      THEN Truthy(WordAfterDump(hyp, gold))
                      ELSE word
    /\ UNCHANGED << final_calls, pooled, arguments, prediction_speakers_dict,
                    results, inc_tag_dict, replay, files >>

\* a variant of the pooling that sums the counters of the start tags
\* <rms, <i and <rps instead of the subtags the combined tag names
CombinedCountsOfStarts(this_tag_dict, tag) ==
    << this_tag_dict["<rms"][1] + this_tag_dict["<i"][1]
          + this_tag_dict["<rps"][1],
       this_tag_dict["<rms"][2] + this_tag_dict["<i"][2]
          + this_tag_dict["<rps"][2],
       this_tag_dict["<rms"][3] + this_tag_dict["<i"][3]
          + this_tag_dict["<rps"][3] >>

\* lines 329-335: the pooled counter of a combined tag
CombinedCounts(this_tag_dict, tag) ==
    LET subtags == SplitDot(tag)
    IN  << SumSeq([i \in 1..Len(subtags) |-> this_tag_dict[subtags[i]][1]]),
           SumSeq([i \in 1..Len(subtags) |-> this_tag_dict[subtags[i]][2]]),
           SumSeq([i \in 1..Len(subtags) |-> this_tag_dict[subtags[i]][3]]) >>

PRF(counts) == p_r_f(counts[1], counts[2], counts[3])

\* lines 321-356: the (key, value) assignments of one eval_mode
AccuracyAssignments(this_tag_dict, eval_mode) ==
    UNION {{ << Key("p", t, eval_mode), PRF(this_tag_dict[t])[1] >>,
             << Key("r", t, eval_mode), PRF(this_tag_dict[t])[2] >>,
             << Key("f1", t, eval_mode), PRF(this_tag_dict[t])[3] >> }
           : t \in SeqToSet(acc_tags)}
    \cup
    UNION {{ << Key("p", t, eval_mode), PRF(CombinedCounts(this_tag_dict, t))[1] >>,
             << Key("r", t, eval_mode), PRF(CombinedCounts(this_tag_dict, t))[2] >>,
             << Key("f1", t, eval_mode), PRF(CombinedCounts(this_tag_dict, t))[3] >> }
           : t \in SeqToSet(combined_acc_tags)}
    \cup
    (IF utt_eval
     THEN { << "NIST_SU_" \o eval_mode, NIST_SU(this_tag_dict["NIST_SU"]) >>,
            << "DSER_" \o eval_mode, DSER(this_tag_dict["DSER"]) >> }
     ELSE {})
    \cup
    UNION {{ << Key("p", RelaxedKey(t), eval_mode),
                PRF(this_tag_dict[RelaxedKey(t)])[1] >>,
             << Key("r", RelaxedKey(t), eval_mode),
                PRF(this_tag_dict[RelaxedKey(t)])[2] >>,
             << Key("f1", RelaxedKey(t), eval_mode),
                PRF(this_tag_dict[RelaxedKey(t)])[3] >> }
           : t \in SeqToSet(relaxed_tags)}

\* dict[key] = value for every (key, value) of a set with distinct keys
AssignAll(dict, pairs) ==
    [k \in (DOMAIN dict) \cup {p[1] : p \in pairs} |->
        IF \E p \in pairs : p[1] = k
        THEN (CHOOSE p \in pairs : p[1] = k)[2]
        ELSE dict[k]]

\* lines 311-356
FinalAccuracy ==
    /\ pc = "fin_loop"
    /\ ~InLoop
    /\ results' =
          AssignAll(results,
                    UNION {AccuracyAssignments(ThisTagDict(m), m)
                           : m \in SeqToSet(EvalModes)})
    /\ pooled' =
          [m \in SeqToSet(EvalModes) |->
              CombinedCounts(ThisTagDict(m),
                             combined_acc_tags[Len(combined_acc_tags)])]
    /\ pc' = "fin_rates"
    /\ UNCHANGED << outputfile, final_calls, inputs,
                    prediction_speakers_dict, err, idx, tag_dict,
                    tag_dict_interval, speaker_rate_dict, inc_tag_dict,
                    replay, files >>

\* lines 369-372 (val[k] of the source is val[k+1])
hyp_rate_turn(val) ==
    IF val[1] = 0 \/ val[3] = 0 THEN Zero ELSE PyDiv(val[1], val[3])

hyp_rate_word(val) ==
    IF val[1] = 0 \/ val[5] = 0 THEN Zero ELSE PyDiv(val[1], val[5])

gold_rate_turn(val) ==
    IF val[2] = 0 \/ val[6] = 0 THEN Zero ELSE PyDiv(val[2], val[4])

gold_rate_word(val) ==
    IF val[2] = 0 \/ val[6] = 0 THEN Zero ELSE PyDiv(val[2], val[6])

\* lines 374-377: the four rates appended to the six totals
ExtendRates(val) ==
    val \o << hyp_rate_turn(val), gold_rate_turn(val),
              hyp_rate_word(val), gold_rate_word(val) >>

RateRaises(val) ==
    \E i \in 7..10 : ExtendRates(val)[i] = Raised("ZeroDivisionError")

\* lines 368-383
ComputeRates ==
    /\ pc = "fin_rates"
    /\ IF \E s \in DOMAIN speaker_rate_dict : RateRaises(speaker_rate_dict[s])
       THEN /\ Raise("ZeroDivisionError", 371)
            /\ UNCHANGED speaker_rate_dict
       ELSE /\ speaker_rate_dict' =
                  [s \in DOMAIN speaker_rate_dict |->
                      ExtendRates(speaker_rate_dict[s])]
            /\ pc' = "fin_pearson"
            /\ UNCHANGED err
    /\ UNCHANGED << outputfile, final_calls, pooled, inputs,
                    prediction_speakers_dict, idx, results, tag_dict,
                    tag_dict_interval, inc_tag_dict, replay, files >>

\* the speakers of speaker_rate_dict, in one order for all six vectors
RatedSpeakers == SelectSeq(AllSpeakers, LAMBDA s : s \in DOMAIN speaker_rate_dict)

\* lines 378-383: column k of the speaker rate tuples (counts as fractions)
RateVector(k) ==
    [i \in 1..Len(RatedSpeakers) |->
        LET v == speaker_rate_dict[RatedSpeakers[i]][k]
        IN  IF k <= 6 THEN Rat(v, 1) ELSE v]

\* lines 386-397
Correlations ==
    /\ pc = "fin_pearson"
    /\ results' =
          AssignAll(results,
              { << "pearson_r_correl_rps_number",
                   pearsonr(RateVector(1), RateVector(2))[1] >>,
                << "pearson_r_p_value_rps_number",
                   pearsonr(RateVector(1), RateVector(2))[2] >>,
                << "pearson_r_correl_rps_rate_per_word",
                   pearsonr(RateVector(9), RateVector(10))[1] >>,
                << "pearson_r_p_value_rps_rate_per_word",
                   pearsonr(RateVector(9), RateVector(10))[2] >>,
                << "pearson_r_correl_rps_rate_per_utt",
                   pearsonr(RateVector(7), RateVector(8))[1] >>,
                << "pearson_r_p_value_rps_rate_per_utt",
                   pearsonr(RateVector(7), RateVector(8))[2] >> })
    /\ pc' = "done"
    /\ UNCHANGED << outputfile, final_calls, pooled, inputs,
                    prediction_speakers_dict, err, idx, tag_dict,
                    tag_dict_interval, speaker_rate_dict, inc_tag_dict,
                    replay, files >>

(***************************************************************************)
(* incremental_output_disfluency_eval                                      *)
(***************************************************************************)
TtdKey(tag, eval_mode) == Key("t_t_detection", tag, eval_mode)

\* lines 452-475: the result keys the enabled headers name, at None
IncHeaderKeys ==
    (IF word
     THEN HeaderKeys(INCREMENTAL_OUTPUT_DISFLUENCY_ACCURACY_HEADER, "word")
          \cup (IF utt_eval
                THEN HeaderKeys(INCREMENTAL_OUTPUT_TTO_ACCURACY_HEADER, "word")
                ELSE {})
     ELSE {})
    \cup
    (IF interval
     THEN HeaderKeys(INCREMENTAL_OUTPUT_DISFLUENCY_ACCURACY_HEADER, "interval")
          \cup (IF utt_eval
                THEN HeaderKeys(INCREMENTAL_OUTPUT_TTO_ACCURACY_HEADER, "interval")
                ELSE {})
     ELSE {})

\* lines 457-459, 469-471, 476
InitialIncTagDict ==
    [k \in {TtdKey(t, m) : t \in SeqToSet(ttd_tags), m \in SeqToSet(EvalModes)}
           \cup {"edit_overhead"}
        |-> IF k = "edit_overhead" THEN << 0, 0 >> ELSE <<>>]

\* lines 448-476
IncInit ==
    /\ pc = "call"
    /\ fn = "incremental"
    /\ results' = Update(EmptyDict, IncHeaderKeys, None)
    /\ inc_tag_dict' = InitialIncTagDict
    /\ idx' = 1
    /\ pc' = "inc_loop"
    /\ UNCHANGED << outputfile, final_calls, pooled, inputs,
                    prediction_speakers_dict, err, tag_dict,
                    tag_dict_interval, speaker_rate_dict, replay, files >>

\* lines 482-484
IncSkip ==
    /\ pc = "inc_loop"
    /\ InLoop
    /\ NotInGold(CurrentSpeaker)
    /\ idx' = idx + 1
    /\ UNCHANGED << outputfile, final_calls, pooled, inputs,
                    prediction_speakers_dict, pc, err, results, tag_dict,
                    tag_dict_interval, speaker_rate_dict, inc_tag_dict,
                    replay, files >>

(***************************************************************************)
(* final_hyp_from_increco_and_incremental_metrics (eval_utils), modelled   *)
(* from section 4.4 of the specification: one step per snapshot.           *)
(***************************************************************************)
\* the gold events (position, tag) a snapshot's records flag correctly
Flagged(recs, gold) ==
    {e \in (DOMAIN recs) \X SeqToSet(ttd_tags) :
        e[2] \in TagsOf(recs[e[1]]) \cap TagsOf(gold[e[1]])}

\* positions whose tag differs from the one held: never emitted, or changed
NewPositions(recs) == (DOMAIN recs) \ (DOMAIN held)

ChangedPositions(recs) ==
    {p \in (DOMAIN recs) \cap (DOMAIN held) : recs[p] # held[p]}

\* the edit-overhead counter after a snapshot: one revision per position
\* whose tag differs, one final token per position when it is first emitted
EditOverheadAfter(eo, recs) ==
    << eo[1] + Cardinality(NewPositions(recs))
             + Cardinality(ChangedPositions(recs)),
       eo[2] + Cardinality(NewPositions(recs)) >>

\* time-to-detection samples of the events of a tag a snapshot detects first
NewSamples(s, t, recs, gold, tag) ==
    LET ps == SelectSeq([i \in 1..Len(gold) |-> i],
                        LAMBDA p : /\ << p, tag >> \in Flagged(recs, gold)
                                   /\ << s, p, tag >> \notin DOMAIN detected)
    IN  [i \in 1..Len(ps) |-> t - GoldStart(ps[i])]

\* the hypothesis held after a snapshot
HeldAfter(recs) ==
    [p \in (DOMAIN held) \cup (DOMAIN recs) |->
        IF p \in DOMAIN recs THEN recs[p] ELSE held[p]]

\* snapshots consumed so far in this run
SnapshotsRead ==
    nSnap + SumSeq([i \in 1..Len(AllSpeakers) |->
                       IF AllSpeakers[i] \in DOMAIN snap_count
                       THEN snap_count[AllSpeakers[i]] ELSE 0])

ReplaySnapshot ==
    /\ pc = "inc_loop"
    /\ InLoop
    /\ ~NotInGold(CurrentSpeaker)
    /\ SnapshotsRead < MaxSnapshots
    /\ LET s == CurrentSpeaker
           gold == gold_speakers_dict[s]
       IN  \E t \in lastTime..MaxTime, D \in (SUBSET (1..Len(gold))) \ {{}} :
           \E recs \in [D -> Annotations] :
              \* records are emitted in order, none before its word begins
              /\ \E k \in 0..Len(gold) : (DOMAIN held) \cup D = 1..k
              /\ \A p \in D : GoldStart(p) <= t
              /\ inc_tag_dict' =
                    [k \in DOMAIN inc_tag_dict |->
                        IF k = "edit_overhead"
                        THEN EditOverheadAfter(inc_tag_dict[k], recs)
                        ELSE LET tag == CHOOSE g \in SeqToSet(ttd_tags) :
                                           \E m \in SeqToSet(EvalModes) :
                                              k = TtdKey(g, m)
                             IN  inc_tag_dict[k]
                                    \o NewSamples(s, t, recs, gold, tag)]
              /\ held' = HeldAfter(recs)
              /\ lastTime' = t
              /\ nSnap' = nSnap + 1
              /\ detected' =
                    [e \in (DOMAIN detected)
                           \cup {<< s, f[1], f[2] >> : f \in Flagged(recs, gold)} |->
                        IF e \in DOMAIN detected THEN detected[e] ELSE t]
              /\ flips' = flips + Cardinality(ChangedPositions(recs))
              /\ first_snapshot' =
                    IF nSnap = 0 THEN Assign(first_snapshot, s, recs)
                    ELSE first_snapshot
    /\ UNCHANGED << outputfile, final_calls, pooled, inputs,
                    prediction_speakers_dict, pc, err, idx, results,
                    tag_dict, tag_dict_interval, speaker_rate_dict,
                    snap_count, files >>

\* line 500: the stabilized hypothesis replaces the snapshot sequence
IncEndSpeaker ==
    /\ pc = "inc_loop"
    /\ InLoop
    /\ ~NotInGold(CurrentSpeaker)
    \* the stream has covered every word of the transcript
    /\ DOMAIN held = 1..Len(gold_speakers_dict[CurrentSpeaker])
    /\ prediction_speakers_dict' =
          Assign(prediction_speakers_dict, CurrentSpeaker, held)
    /\ snap_count' = Assign(snap_count, CurrentSpeaker, nSnap)
    /\ held' = <<>>
    /\ lastTime' = 0
    /\ nSnap' = 0
    /\ idx' = idx + 1
    /\ UNCHANGED << outputfile, final_calls, pooled, inputs, pc, err,
                    results, tag_dict, tag_dict_interval, speaker_rate_dict,
                    inc_tag_dict, detected, first_snapshot, flips, files >>

\* a variant of the percentage that forgets to subtract the final tokens
edit_overhead_rel_absolute(edit_overhead) ==
    LET quotient == PyDiv(edit_overhead[1], edit_overhead[2])
    IN  IF quotient = Raised("ZeroDivisionError")
        THEN quotient
        ELSE RatScale(100, quotient)

\* a variant of the average that counts an empty sample list as 0 and
\* divides by one more than the number of samples
t_t_detection_penalized(samples) == Rat(SumSeq(samples), Len(samples) + 1)

\* lines 509-511
edit_overhead_rel(edit_overhead) ==
    LET quotient == PyDiv(edit_overhead[1], edit_overhead[2])
    IN  IF quotient = Raised("ZeroDivisionError")
        THEN quotient
        ELSE RatScale(100, RatSub(quotient, Rat(1, 1)))

\* lines 512-516
t_t_detection(samples) == np_average(samples)

\* lines 503-516
IncResults ==
    /\ pc = "inc_loop"
    /\ ~InLoop
    /\ IF EvalModes # <<>>
          /\ edit_overhead_rel(inc_tag_dict["edit_overhead"])
                = Raised("ZeroDivisionError")
       THEN /\ Raise("ZeroDivisionError", 510)
            /\ UNCHANGED results
       ELSE /\ results' =
                  AssignAll(results,
                     {<< "edit_overhead_rel_" \o m,
                         edit_overhead_rel(inc_tag_dict["edit_overhead"]) >>
                        : m \in SeqToSet(EvalModes)}
                     \cup
                     {<< TtdKey(t, m), t_t_detection(inc_tag_dict[TtdKey(t, m)]) >>
                        : t \in SeqToSet(ttd_tags), m \in SeqToSet(EvalModes)})
            /\ pc' = "fin_call"
            /\ UNCHANGED err
    /\ UNCHANGED << outputfile, final_calls, pooled, inputs,
                    prediction_speakers_dict, idx, tag_dict,
                    tag_dict_interval, speaker_rate_dict, inc_tag_dict,
                    replay, files >>

(***************************************************************************)
(* save_results_to_file                                                    *)
(***************************************************************************)
test_filename == "swda_test"

\* the model_info argument: a value for every name of MODEL_INFO_HEADER
model_info == [x \in SeqToSet(MODEL_INFO_HEADER) |-> "info:" \o x]

\* str() of an entry of a speaker rate tuple (counts as fractions)
Cell(val, k) == IF k <= 6 THEN Rat(val[k], 1) ELSE val[k]

\* lines 581-587: the row of one speaker (val[k] of the source is val[k+1])
SpeakerRateRow(key, val) ==
    << test_filename, SplitColon(key)[1], SplitColon(key)[2],
       Cell(val, 3), Cell(val, 5), Cell(val, 1), Cell(val, 2),
       Cell(val, 6), Cell(val, 7), Cell(val, 8), Cell(val, 9) >>

\* lines 559-588, called with what final_output_disfluency_eval returned
SaveResultsToFile ==
    /\ pc = "done"
    /\ \E results_isfile \in BOOLEAN, speaker_rate_isfile \in BOOLEAN :
          LET header == IF results_isfile
                        THEN <<>>
                        ELSE << MODEL_INFO_HEADER \o ACCURACY_HEADER >>
              info == [i \in 1..Len(MODEL_INFO_HEADER) |->
                          model_info[MODEL_INFO_HEADER[i]]]
              columns == PySplit(ACCURACY_HEADER, "")
          IN  IF columns = Raised("ValueError")
              THEN /\ results_file' = results_file \o header \o << info >>
                   /\ Raise("ValueError", 568)
                   /\ UNCHANGED speaker_rate_file
              ELSE IF \E i \in 1..Len(columns.list) :
                         columns.list[i] \notin DOMAIN results
              THEN /\ results_file' = results_file \o header \o << info >>
                   /\ Raise("KeyError", 568)
                   /\ UNCHANGED speaker_rate_file
              ELSE /\ results_file' =
                         results_file \o header
                            \o << info \o [i \in 1..Len(columns.list) |->
                                              results[columns.list[i]]] >>
                   /\ IF ~speaker_rate_isfile
                      THEN \* open(speaker_rate_file, "w") reads the unbound
                           \* local speaker_rate_file
                           /\ Raise("UnboundLocalError", 574)
                           /\ UNCHANGED speaker_rate_file
                      ELSE /\ speaker_rate_file' =
                                 speaker_rate_file
                                    \o [i \in 1..Len(RatedSpeakers) |->
                                           SpeakerRateRow(RatedSpeakers[i],
                                              speaker_rate_dict[RatedSpeakers[i]])]
                           /\ pc' = "saved"
                           /\ UNCHANGED err
    /\ UNCHANGED << outputfile, final_calls, pooled, inputs,
                    prediction_speakers_dict, idx, results, tag_dict,
                    tag_dict_interval, speaker_rate_dict, inc_tag_dict,
                    replay >>

Next ==
    \/ IncInit
    \/ IncSkip
    \/ ReplaySnapshot
    \/ IncEndSpeaker
    \/ IncResults
    \/ FinalInit
    \/ FinalSkip
    \/ FinalScore
    \/ FinalAccuracy
    \/ ComputeRates
    \/ Correlations
    \/ SaveResultsToFile

Spec == Init /\ [][Next]_vars

\* final_output_disfluency_eval called on its own
InitFinal == Init /\ fn = "final"

NextFinal ==
    \/ FinalInit
    \/ FinalSkip
    \/ FinalScore
    \/ FinalAccuracy
    \/ ComputeRates
    \/ Correlations
    \/ SaveResultsToFile

SpecFinal == InitFinal /\ [][NextFinal]_vars

\* incremental_output_disfluency_eval up to its call of the final scorer,
\* with utt_eval and outputfilename at their defaults
InitInc == Init /\ fn = "incremental" /\ ~utt_eval /\ ~outputfilename

NextInc ==
    \/ IncInit
    \/ IncSkip
    \/ ReplaySnapshot
    \/ IncEndSpeaker
    \/ IncResults

SpecInc == InitInc /\ [][NextInc]_vars

\* the same, called with the default keyword arguments of lines 420-423
InitIncDefault == InitInc /\ word /\ ~interval

SpecIncDefault == InitIncDefault /\ [][NextInc]_vars

\* a whole default run: the replay, the final scorer it calls, the writer
SpecRun == InitIncDefault /\ [][Next]_vars

(***************************************************************************)
(* Properties.                                                             *)
(***************************************************************************)
\* the hypothesis speakers that have a gold entry
ScoredSpeakers == (DOMAIN prediction_speakers_dict) \cap (DOMAIN gold_speakers_dict)

\* the hypothesis speakers the loops skip
MissingSpeakers == (DOMAIN prediction_speakers_dict) \ (DOMAIN gold_speakers_dict)

\* the replay loop of incremental_output_disfluency_eval has been left
ReplayEnded == fn = "incremental" /\ pc \notin {"call", "inc_loop"}

\* lines 503-516 have assigned their results
IncResultsAssigned == ReplayEnded /\ err # << "ZeroDivisionError", 510 >>

\* lines 311-356 have assigned their results
AccuracyAssigned ==
    \/ pc \in {"fin_rates", "fin_pearson", "done", "saved"}
    \/ pc = "error" /\ err[2] \in {371, 568, 574}

\* one of the two scorers has raised (lines 160-526)
ScorerFailed == pc = "error" /\ err[2] <= 526

\* C1: a hypothesis speaker without a gold entry is skipped: it gets no
\* entry in speaker_rate_dict, and a run that meets only such speakers still
\* completes instead of ending in an error.
C1_MissingSpeakerIsSkipped ==
    /\ \A s \in MissingSpeakers : s \notin DOMAIN speaker_rate_dict
    /\ (MissingSpeakers # {} /\ ScoredSpeakers = {}) => ~ScorerFailed

\* the rate a guarded division gives: 0 when the numerator or its own
\* denominator is 0, the quotient otherwise
GuardedRate(enum, denom) ==
    IF enum = 0 \/ denom = 0 THEN Zero ELSE Rat(enum, denom)

\* C2: the four derived rates never raise a division by zero, and each is 0
\* when its numerator or its own denominator is 0 and the quotient otherwise.
C2_RatesAreGuarded ==
    /\ err # << "ZeroDivisionError", 371 >>
    /\ pc \in {"fin_pearson", "done", "saved"} =>
          \A s \in DOMAIN speaker_rate_dict :
             LET val == speaker_rate_dict[s]
             IN  /\ val[7] = GuardedRate(val[1], val[3])
                 /\ val[8] = GuardedRate(val[2], val[4])
                 /\ val[9] = GuardedRate(val[1], val[5])
                 /\ val[10] = GuardedRate(val[2], val[6])

\* C3: when the replay ends with 0 total final tokens in the edit-overhead
\* counter, no division by zero is raised and edit_overhead_rel_<mode> is 0.
C3_ZeroTokensGiveZeroOverhead ==
    (ReplayEnded /\ inc_tag_dict["edit_overhead"][2] = 0) =>
        /\ err # << "ZeroDivisionError", 510 >>
        /\ \A m \in SeqToSet(EvalModes) :
              results["edit_overhead_rel_" \o m] = Zero

\* C4: for each enabled granularity, the pooled (TP, FP, FN) behind the
\* combined tag's precision, recall and F1 is the component-wise sum of the
\* counters of the tags <rm (reparandum word), <i (interregnum) and <rp
\* (repair word), the subtags the combined tag <rm.<i.<rp names.
C4_PooledIsSumOfRmIRp ==
    AccuracyAssigned =>
        \A m \in SeqToSet(EvalModes) :
           LET td == ThisTagDict(m)
               sum == Add3(Add3(td["<rm"], td["<i"]), td["<rp"])
           IN  /\ pooled[m] = sum
               /\ results[Key("p", "<rm.<i.<rp", m)] = PRF(sum)[1]
               /\ results[Key("r", "<rm.<i.<rp", m)] = PRF(sum)[2]
               /\ results[Key("f1", "<rm.<i.<rp", m)] = PRF(sum)[3]

\* a word-level run has pooled a reparandum word and a repair word
C4_Witness ==
    /\ pc = "done"
    /\ word
    /\ tag_dict["<rm"][1] > 0
    /\ tag_dict["<rp"][1] > 0
    /\ pooled["word"][1] = 2

\* C4 as stated: the pooled (TP, FP, FN) is the component-wise sum of the
\* counters of reparandum-start (<rms), interregnum (<i) and repair-start
\* (<rps).
C4_PooledIsSumOfStarts ==
    AccuracyAssigned =>
        \A m \in SeqToSet(EvalModes) :
           LET td == ThisTagDict(m)
           IN  pooled[m] = Add3(Add3(td["<rms"], td["<i"]), td["<rps"])

\* C5: when final_output_disfluency_eval returns, no key of the final-output
\* accuracy headers of an enabled granularity is left at None.
C5_HeaderKeysAreNumeric ==
    pc = "done" => \A k \in FinalHeaderKeys : results[k] # None

\* the tag counters the final scorer reaches when run directly on the first
\* snapshot of each of the first n scored speakers
RECURSIVE DirectTagDict(_)
DirectTagDict(n) ==
    IF n = 0
    THEN InitialTagDict
    ELSE LET s == SortedKeys[n]
         IN  IF s \in DOMAIN first_snapshot
             THEN ScoreTags(DirectTagDict(n - 1), first_snapshot[s],
                            gold_speakers_dict[s])
             ELSE DirectTagDict(n - 1)

\* every scored speaker's stream had exactly one snapshot
SingleSnapshotStreams == \A s \in DOMAIN snap_count : snap_count[s] = 1

\* C6: on a stream with exactly one snapshot per speaker the incremental
\* scorer ends with the tag counters the final scorer reaches on those
\* snapshots, for every speaker set: it does not fail where the final
\* scorer returns.
C6_SingleSnapshotRoundTrip ==
    (ReplayEnded /\ SingleSnapshotStreams) =>
        /\ err # << "ZeroDivisionError", 510 >>
        /\ pc \in {"fin_rates", "fin_pearson", "done", "saved"} =>
              /\ word => tag_dict = DirectTagDict(Len(SortedKeys))
              /\ interval => tag_dict_interval = DirectTagDict(Len(SortedKeys))

\* the gold events of a tag that were flagged correctly at some snapshot
DetectedEvents(tag) == {e \in DOMAIN detected : e[3] = tag}

\* the gold events of a tag, over the scored speakers
GoldEvents(tag) ==
    {e \in SeqToSet(AllSpeakers) \X (1..MaxRecords) \X {tag} :
        /\ e[1] \in ScoredSpeakers
        /\ e[2] \in Positions(gold_speakers_dict[e[1]], tag)}

RECURSIVE SumOfDelays(_)
SumOfDelays(events) ==
    IF events = {}
    THEN 0
    ELSE LET e == CHOOSE x \in events : TRUE
         IN  (detected[e] - GoldStart(e[2])) + SumOfDelays(events \ {e})

\* C7: for each time-to-detection tag and granularity the reported
\* t_t_detection is the average, over the detected gold events only, of the
\* time of the first snapshot flagging the event correctly minus the event's
\* gold onset; undetected events contribute no sample.
C7_TimeToDetectionAveragesDetected ==
    IncResultsAssigned =>
        \A m \in SeqToSet(EvalModes), tag \in SeqToSet(ttd_tags) :
           /\ Len(inc_tag_dict[TtdKey(tag, m)])
                 = Cardinality(DetectedEvents(tag))
           /\ \A e \in DetectedEvents(tag) : detected[e] >= GoldStart(e[2])
           /\ results[TtdKey(tag, m)] =
                 IF DetectedEvents(tag) = {}
                 THEN NaN
                 ELSE Rat(SumOfDelays(DetectedEvents(tag)),
                          Cardinality(DetectedEvents(tag)))

\* one repair onset was flagged one time unit late, another never
C7_Witness ==
    /\ pc = "fin_call"
    /\ word
    /\ \E e \in DetectedEvents("<rps") : detected[e] = GoldStart(e[2]) + 1
    /\ GoldEvents("<rps") \ DetectedEvents("<rps") # {}
    /\ results[TtdKey("<rps", "word")] = Rat(1, 1)

\* the record positions emitted over the whole run
FinalTokens ==
    SumSeq([i \in 1..Len(AllSpeakers) |->
               IF AllSpeakers[i] \in DOMAIN snap_count
               THEN Len(prediction_speakers_dict[AllSpeakers[i]]) ELSE 0])

\* C8: the relative edit overhead is 100 * (revisions / final tokens - 1)
\* with one final token per record position: 0 for a stream that never
\* changes an emitted tag, and 100 * N / final tokens for one with N changes
\* of an already emitted tag.
C8_EditOverheadCountsFlips ==
    IncResultsAssigned =>
        /\ inc_tag_dict["edit_overhead"][2] = FinalTokens
        /\ inc_tag_dict["edit_overhead"][1] = FinalTokens + flips
        /\ \A m \in SeqToSet(EvalModes) :
              results["edit_overhead_rel_" \o m] = Rat(100 * flips, FinalTokens)

\* one tag of a one-record stream was flipped twice: 200%
C8_Witness ==
    /\ pc = "fin_call"
    /\ word
    /\ flips = 2
    /\ FinalTokens = 1
    /\ results["edit_overhead_rel_word"] = Rat(200, 1)

Constant(vector) == Cardinality(SeqToSet(vector)) <= 1

\* C9: with fewer than two scored speakers, or a constant vector, each of
\* the three Pearson correlations is NaN and the run returns its results
\* instead of failing.
C9_DegenerateCorrelationsAreNaN ==
    /\ ~ /\ pc = "error"
         /\ err = << "ZeroDivisionError", 371 >>
         /\ Cardinality(DOMAIN speaker_rate_dict) < 2
    /\ pc = "done" =>
          \A c \in { << 1, 2, "rps_number" >>, << 9, 10, "rps_rate_per_word" >>,
                     << 7, 8, "rps_rate_per_utt" >> } :
             (\/ Len(RatedSpeakers) < 2
              \/ Constant(RateVector(c[1]))
              \/ Constant(RateVector(c[2])))
             => /\ results["pearson_r_correl_" \o c[3]] = NaN
                /\ results["pearson_r_p_value_" \o c[3]] = NaN

\* the row SPEAKER_RATE_HEADER describes: corpus, dialogue, speaker, turns,
\* words, hyp and gold repairs, then the four rates
HeaderRow(key, val) ==
    << test_filename, SplitColon(key)[1], SplitColon(key)[2],
       Cell(val, 3), Cell(val, 5), Cell(val, 1), Cell(val, 2),
       Cell(val, 7), Cell(val, 8), Cell(val, 9), Cell(val, 10) >>

\* C10: save_results_to_file writes, for every speaker of speaker_rate_dict,
\* the row SPEAKER_RATE_HEADER describes: dialogue, speaker, turn and word
\* counts, hyp and gold repair counts, then the four rates as computed.
C10_SpeakerRateRowFollowsHeader ==
    /\ pc = "done" =>
          \A s \in DOMAIN speaker_rate_dict :
             SpeakerRateRow(s, speaker_rate_dict[s])
                = HeaderRow(s, speaker_rate_dict[s])
    /\ err # << "ValueError", 568 >>

\* the flag that enables a granularity
Flag(eval_mode) == IF eval_mode = "interval" THEN interval ELSE word

\* the counters after the first n speakers of the sorted keys were scored
RECURSIVE ScoredTagDict(_)
ScoredTagDict(n) ==
    IF n = 0
    THEN InitialTagDict
    ELSE LET s == SortedKeys[n]
         IN  IF NotInGold(s)
             THEN ScoredTagDict(n - 1)
             ELSE ScoreTags(ScoredTagDict(n - 1), prediction_speakers_dict[s],
                            gold_speakers_dict[s])

\* the final scorer has initialised its counters (lines 220-227)
FinalStarted == final_calls > 0

\* the accuracy keys lines 321-356 assign for a granularity
AccuracyKeys(eval_mode) ==
    {Key(prefix, t, eval_mode) :
        prefix \in {"p", "r", "f1"},
        t \in SeqToSet(acc_tags) \cup SeqToSet(combined_acc_tags)
              \cup {RelaxedKey(u) : u \in SeqToSet(relaxed_tags)}}

\* C11: word-level and interval-level evaluation are selected independently:
\* a granularity's counter set is updated by the scored speakers, and its
\* accuracy results are assigned, exactly when its flag is set; with the
\* flag off its counters stay as initialised whatever the other flag is.
C11_GranularitiesAreIndependent ==
    /\ FinalStarted =>
          \A m \in {"word", "interval"} :
             ThisTagDict(m) = IF Flag(m)
                              THEN ScoredTagDict(idx - 1)
                              ELSE InitialTagDict
    /\ AccuracyAssigned =>
          \A m \in {"word", "interval"} :
             /\ Flag(m) => \A k \in AccuracyKeys(m) :
                              /\ k \in DOMAIN results
                              /\ results[k] # None
             /\ ~Flag(m) => \A k \in AccuracyKeys(m) : k \notin DOMAIN results

\* word-level only: the word counters were updated and the word results
\* assigned, the interval counters are untouched
C11_Witness ==
    /\ pc = "done"
    /\ word
    /\ ~interval
    /\ tag_dict["<rm"][1] > 0
    /\ tag_dict["<rps"][2] > 0
    /\ tag_dict_interval = InitialTagDict
    /\ results["p_<rm_word"] = Rat(1, 1)
    /\ "p_<rm_interval" \notin DOMAIN results

\* a scored speaker whose snapshot sequence was replaced at line 500
Stabilized(s) ==
    /\ s \in DOMAIN snap_count
    /\ DOMAIN prediction_speakers_dict[s] = 1..Len(gold_speakers_dict[s])

\* C12: incremental_output_disfluency_eval invokes the final scorer exactly
\* once, after the replay of all speakers: a run that has left the replay
\* loop reaches the call, at the call every hypothesis speaker present in
\* gold maps to its stabilized hypothesis, and the final counters are
\* computed from those.
C12_FinalScorerRunsOnceOnStabilized ==
    fn = "incremental" =>
        /\ final_calls <= 1
        /\ final_calls = 0 => pc \in {"call", "inc_loop", "fin_call"}
        /\ (final_calls = 1 \/ pc = "fin_call") =>
              \A s \in ScoredSpeakers : Stabilized(s)
        /\ final_calls = 1 =>
              \A m \in SeqToSet(EvalModes) :
                 ThisTagDict(m) = ScoredTagDict(idx - 1)

\* position of a speaker key in ascending order
Rank(s) == CHOOSE i \in 1..Len(AllSpeakers) : AllSpeakers[i] = s

\* the replay of a speaker's stream has begun, or is over
ReplayBegun(s) ==
    \/ s \in DOMAIN snap_count
    \/ \E e \in DOMAIN detected : e[1] = s
    \/ pc = "inc_loop" /\ InLoop /\ CurrentSpeaker = s /\ nSnap > 0

\* every scored speaker with a smaller key is in the set
SmallerKeysIn(s, done) ==
    \A s2 \in ScoredSpeakers : Rank(s2) < Rank(s) => s2 \in done

\* contributions are made only after those of all smaller keys
ContributionsInKeyOrder ==
    /\ \A s \in DOMAIN speaker_rate_dict :
          SmallerKeysIn(s, DOMAIN speaker_rate_dict)
    /\ \A s \in ScoredSpeakers :
          ReplayBegun(s) => SmallerKeysIn(s, DOMAIN snap_count)
    /\ \A i \in 1..Len(outputfile), j \in 1..Len(outputfile) :
          i < j => Rank(outputfile[i].file) < Rank(outputfile[j].file)

\* a step of a speaker loop changes the current speaker's entries only, and
\* a speaker that was scored or skipped is left for good
OneSpeakerAtATime ==
    /\ (pc = "fin_loop" /\ pc' = "fin_loop") =>
          /\ idx' = idx + 1
          /\ \A s \in DOMAIN speaker_rate_dict' :
                s # CurrentSpeaker =>
                   /\ s \in DOMAIN speaker_rate_dict
                   /\ speaker_rate_dict'[s] = speaker_rate_dict[s]
    /\ (pc = "inc_loop" /\ pc' = "inc_loop") =>
          /\ idx' \in {idx, idx + 1}
          /\ \A s \in DOMAIN snap_count' :
                s # CurrentSpeaker =>
                   /\ s \in DOMAIN snap_count
                   /\ snap_count'[s] = snap_count[s]
          /\ \A s \in DOMAIN snap_count : s \in DOMAIN snap_count'
          /\ \A e \in (DOMAIN detected') \ (DOMAIN detected) :
                e[1] = CurrentSpeaker

\* C13: both scorers process the speakers one at a time in ascending order
\* of the speaker key: a speaker contributes to the counters, and gets its
\* block in the aligned-output file, only after all speakers with smaller
\* keys, and each key is processed at most once per run.
C13_SpeakersInSortedOrder ==
    /\ []ContributionsInKeyOrder
    /\ [][OneSpeakerAtATime]_vars

\* both speakers were replayed and then scored by the final scorer
C13_Witness ==
    /\ pc = "done"
    /\ fn = "incremental"
    /\ DOMAIN snap_count = SeqToSet(AllSpeakers)
    /\ DOMAIN speaker_rate_dict = SeqToSet(AllSpeakers)
    /\ \A s \in SeqToSet(AllSpeakers) : snap_count[s] >= 1

\* the six totals of a speaker scored once
TotalsOnce(s) ==
    LET hyp == prediction_speakers_dict[s]
        gold == gold_speakers_dict[s]
    IN  << Count(hyp, "<rps"), Count(gold, "<rps"),
           Count(hyp, "t>"), Count(gold, "t>"), Len(hyp), Len(gold) >>

\* the scored speakers the loop of the final scorer has passed
PassedSpeakers ==
    {SortedKeys[i] : i \in 1..(idx - 1)} \cap DOMAIN gold_speakers_dict

\* the totals are non-negative, and every speaker the loop has scored has
\* had its totals added once
TotalsAddedOnce ==
    /\ \A s \in DOMAIN speaker_rate_dict :
          \A k \in 1..6 : speaker_rate_dict[s][k] >= 0
    /\ (final_calls > 0 /\ (word \/ interval)) =>
          /\ DOMAIN speaker_rate_dict = PassedSpeakers
          /\ \A s \in PassedSpeakers :
                \A k \in 1..6 : speaker_rate_dict[s][k] = TotalsOnce(s)[k]

\* in the speaker loop no entry is removed and no total decreases
TotalsNeverDecrease ==
    pc = "fin_loop" =>
        \A s \in DOMAIN speaker_rate_dict :
           /\ s \in DOMAIN speaker_rate_dict'
           /\ \A k \in 1..6 : speaker_rate_dict'[s][k] >= speaker_rate_dict[s][k]

\* C14: throughout the speaker loop of final_output_disfluency_eval the six
\* running totals of every speaker_rate_dict entry are non-negative and
\* never decrease, and each scored speaker's totals are added exactly once
\* per run, also when both granularities are enabled.
C14_TotalsAccumulateOnce ==
    /\ []TotalsAddedOnce
    /\ [][TotalsNeverDecrease]_vars

\* both granularities enabled: a speaker with a repair and a turn end has
\* each counted once
C14_Witness ==
    /\ pc = "fin_rates"
    /\ word
    /\ interval
    /\ \E s \in DOMAIN speaker_rate_dict :
          /\ speaker_rate_dict[s][1] = 1
          /\ speaker_rate_dict[s][2] = 1
          /\ speaker_rate_dict[s][4] = 1
          /\ speaker_rate_dict[s][6] = 2

\* the (key, value) assignments of lines 321-356 for given counters of the
\* word and interval level
AccuracyPairs(word_counters, interval_counters) ==
    (IF word THEN AccuracyAssignments(word_counters, "word") ELSE {})
    \cup (IF interval
          THEN AccuracyAssignments(interval_counters, "interval")
          ELSE {})

PearsonKeys == HeaderKeys(FINAL_OUTPUT_DISFLUENCY_RATE_ACCURACY_HEADER, "")

\* counters, totals and results are what the flags, the hypotheses and gold
\* determine, whether or not an outputfilename is given
OutcomeIgnoresDump ==
    /\ final_calls > 0 =>
          /\ tag_dict = IF word THEN ScoredTagDict(idx - 1) ELSE InitialTagDict
          /\ tag_dict_interval =
                IF interval THEN ScoredTagDict(idx - 1) ELSE InitialTagDict
          /\ (word \/ interval) =>
                \A s \in DOMAIN speaker_rate_dict :
                   \A k \in 1..6 : speaker_rate_dict[s][k] = TotalsOnce(s)[k]
    /\ pc = "done" =>
          LET scored == ScoredTagDict(Len(SortedKeys))
              pairs == AccuracyPairs(scored, scored)
              assigned == {pr[1] : pr \in pairs}
          IN  /\ (DOMAIN results) \ PearsonKeys = FinalHeaderKeys \cup assigned
              /\ \A pr \in pairs : results[pr[1]] = pr[2]
              /\ \A k \in FinalHeaderKeys \ assigned : results[k] = None
              /\ \A s \in DOMAIN speaker_rate_dict :
                    speaker_rate_dict[s] =
                       ExtendRates([k \in 1..6 |-> TotalsOnce(s)[k]])

\* the dump leaves the truth value of the local name word as it was
WordStaysEnabled == word' = word

\* C15: an outputfilename does not change the evaluation: with and without
\* it the same counters are updated for every speaker (word-level scoring
\* stays enabled after a speaker was dumped, and in the result loop) and the
\* same results and speaker_rate_dict are returned.
C15_DumpDoesNotChangeEvaluation ==
    /\ []OutcomeIgnoresDump
    /\ [][WordStaysEnabled]_vars

\* two speakers were dumped and the second one was still scored at word
\* level
C15_Witness ==
    /\ pc = "done"
    /\ outputfilename
    /\ word
    /\ Len(outputfile) = 2
    /\ \A i \in 1..2 : Len(outputfile[i].lines) = 1
    /\ tag_dict["<rm"][1] = 2
    /\ results["p_<rm_word"] = Rat(1, 1)

=============================================================================
